---- MODULE Spec2Model ----
(***************************************************************************)
(* windfreak SynthHD driver: the channel views (SynthHDChannel), the       *)
(* device object (SynthHD), its attribute registry (SynthHD.API) and the   *)
(* line-oriented session they drive, against a device that stores the     *)
(* last value written per command code.                                    *)
(*                                                                         *)
(* Numbers.  A Python number is modelled as a decimal                      *)
(*     [e, n, m]  =  (n + m / 10^8) * 10^e,   0 <= m < 10^8, e \in {0, 6}  *)
(* so that 13999.999999e6 Hz (which exceeds 32 bits) is [e=6, n=13999,     *)
(* m=99999900].  "value / 1e6" and "value * 1e6" move e by 6.              *)
(* A formatted argument on the wire is the text of a decimal with d        *)
(* fractional digits, [d, n, m] with m a multiple of 10^(8-d).             *)
(***************************************************************************)
EXTENDS Integers, Sequences, FiniteSets, TLC

VARIABLES
    dev,      \* the device: selected channel, per-channel and global registers
    sent,     \* lines the most recent call put on the transport, in order
    call,     \* the most recent property access
    out,      \* its outcome: status and returned value
    ncalls,   \* number of property accesses made (Spec only)
    pc,       \* step-level specifications: position of each caller
    lock,     \* step-level specifications: holder of the caller's mutex
    applied,  \* step-level specifications: (view, selected channel) of applied commands
    pre,      \* step-level specifications: registers when the call began
    lastset   \* per object, the most recent set the object accepted

vars == <<dev, sent, call, out, ncalls, pc, lock, applied, pre, lastset>>

Channels == {0, 1}
DEVICE == Cardinality(Channels)   \* the "object" of a device-level property (SynthHD itself)

Pow10(k) == CASE k = 0 -> 1 [] k = 1 -> 10 [] k = 2 -> 100 [] k = 3 -> 1000
              [] k = 4 -> 10000 [] k = 5 -> 100000 [] k = 6 -> 1000000
              [] k = 7 -> 10000000 [] k = 8 -> 100000000

Scale == Pow10(8)    \* resolution of the fractional part m
Mega == Pow10(6)

-----------------------------------------------------------------------------
(* Python values                                                           *)

Val(t, e, n, m, s) == [t |-> t, e |-> e, n |-> n, m |-> m, s |-> s]
PyInt(n) == Val("int", 0, n, 0, "")
PyFloat(e, n, m) == Val("float", e, n, m, "")
PyBool(b) == Val("bool", 0, IF b THEN 1 ELSE 0, 0, "")
PyStr(s) == Val("str", 0, 0, 0, s)
PyNone == Val("none", 0, 0, 0, "")

IsNumber(v) == v.t \in {"float", "int", "bool"}   \* isinstance(v, (float, int))
IsInt(v) == v.t \in {"int", "bool"}               \* isinstance(v, int)
IsBool(v) == v.t = "bool"                         \* isinstance(v, bool)
Truth(v) == v.n # 0

\* a number with e = 0 rewritten with e = 6 (digits below 10^-8 are dropped)
ToMega(v) ==
    IF v.e = 6 THEN v
    ELSE [v EXCEPT !.e = 6, !.n = v.n \div Mega,
                   !.m = (v.n % Mega) * 100 + (v.m \div Mega)]

\* a <= b on numbers
NumLeq(a, b) ==
    LET x == IF a.e = b.e THEN a ELSE ToMega(a)
        y == IF a.e = b.e THEN b ELSE ToMega(b)
    IN  x.n < y.n \/ (x.n = y.n /\ x.m <= y.m)

DivMega(v) == [v EXCEPT !.t = "float", !.e = v.e - 6]   \* v / 1e6
MulMega(v) == [v EXCEPT !.t = "float", !.e = v.e + 6]   \* v * 1e6

-----------------------------------------------------------------------------
(* Wire text                                                               *)

Txt(d, n, m) == [d |-> d, n |-> n, m |-> m]

\* '{:.<d>f}'.format(v): correctly rounded to d fractional digits, ties to even
FormatFixed(v, d) ==
    LET step == Pow10(8 - d)
        q == v.m \div step
        r == v.m % step
        up == (2 * r > step) \/ (2 * r = step /\ q % 2 = 1)
        q2 == IF up THEN q + 1 ELSE q
    IN  IF q2 * step = Scale THEN Txt(d, v.n + 1, 0) ELSE Txt(d, v.n, q2 * step)

\* '{}'.format(v) of an integer
FormatPlain(v) == Txt(0, v.n, 0)

Line(code, query, txt) == [code |-> code, q |-> query, a |-> txt]
NoTxt == Txt(0, 0, 0)

-----------------------------------------------------------------------------
(* SynthHD.API: name -> (type, write template, query).  fmt is the number   *)
(* of fractional digits of the write template, -1 for a plain '{}'.        *)

Entry(dtype, code, fmt, query) ==
    [dtype |-> dtype, code |-> code, fmt |-> fmt, query |-> query]

API(attribute) ==
    CASE attribute = "channel"        -> Entry("int",   "C", -1, "C?")
      [] attribute = "frequency"      -> Entry("float", "f",  7, "f?")
      [] attribute = "power"          -> Entry("float", "W",  3, "W?")
      [] attribute = "temp_comp_mode" -> Entry("int",   "Z", -1, "Z?")
      [] attribute = "vga_dac"        -> Entry("int",   "a", -1, "a?")
      [] attribute = "phase_step"     -> Entry("float", "~",  3, "~?")
      [] attribute = "rf_mute"        -> Entry("bool",  "h", -1, "h?")
      [] attribute = "pa_power_on"    -> Entry("bool",  "r", -1, "r?")
      [] attribute = "pll_power_on"   -> Entry("bool",  "E", -1, "E?")
      [] attribute = "reference_mode" -> Entry("int",   "x", -1, "x?")
      [] attribute = "trig_function"  -> Entry("int",   "w", -1, "w?")
      [] attribute = "ref_frequency"  -> Entry("float", "*",  3, "*?")
      [] attribute = "sweep_cont"     -> Entry("bool",  "c", -1, "c?")
      [] attribute = "am_cont"        -> Entry("bool",  "A", -1, "A?")
      [] attribute = "pulse_cont"     -> Entry("bool",  "j", -1, "j?")
      [] attribute = "dual_pulse_mod" -> Entry("bool",  "D", -1, "D?")
      [] attribute = "fm_cont"        -> Entry("bool",  "/", -1, "/?")

-----------------------------------------------------------------------------
(* The device: one register per command code, the channel-scoped ones per  *)
(* channel; C selects the channel the channel-scoped codes address.        *)

ChannelCodes == {"f", "W", "Z", "a", "~", "h", "r", "E"}
GlobalCodes == {"x", "w", "*", "c", "A", "j", "D", "/"}

DeviceWrite(d, line) ==
    IF line.code = "C" THEN [d EXCEPT !.sel = line.a.n]
    ELSE IF line.code \in ChannelCodes
         THEN [d EXCEPT !.mem[d.sel][line.code] = line.a]
         ELSE [d EXCEPT !.glob[line.code] = line.a]

DeviceReply(d, code) ==
    IF code \in ChannelCodes THEN d.mem[d.sel][code] ELSE d.glob[code]

-----------------------------------------------------------------------------
(* The session (SerialDevice.write / read), driven by the registry         *)

R(d, s, status, val) == [dev |-> d, sent |-> s, status |-> status, val |-> val]
Raise(st, exc) == R(st.dev, st.sent, exc, PyNone)

\* the argument text of a write: booleans go out as 0/1
FormatArg(api, v) ==
    IF api.dtype = "bool" THEN Txt(0, IF Truth(v) THEN 1 ELSE 0, 0)
    ELSE IF api.fmt < 0 THEN FormatPlain(v)
    ELSE FormatFixed(v, api.fmt)

\* the reply text parsed as the attribute's type
ParseReply(api, txt) ==
    CASE api.dtype = "bool"  -> PyBool(txt.d = 0 /\ txt.n = 1)
      [] api.dtype = "int"   -> PyInt(txt.n)
      [] api.dtype = "float" -> PyFloat(0, txt.n, txt.m)

parent_write(st, attribute, v) ==
    LET api == API(attribute)
        line == Line(api.code, FALSE, FormatArg(api, v))
    IN  R(DeviceWrite(st.dev, line), Append(st.sent, line), "ok", PyNone)

parent_read(st, attribute) ==
    LET api == API(attribute)
        line == Line(api.code, TRUE, NoTxt)
        txt == DeviceReply(st.dev, api.code)
    IN  IF api.dtype = "int" /\ txt.d # 0
        THEN R(st.dev, Append(st.sent, line), "ProtocolError", PyNone)
        ELSE R(st.dev, Append(st.sent, line), "ok", ParseReply(api, txt))

-----------------------------------------------------------------------------
(* SynthHDChannel: every read and write selects the channel first          *)

\* (mutant) select ignores the view's index
select_zero(st, index) == parent_write(st, "channel", PyInt(0))

select(st, index) == parent_write(st, "channel", PyInt(index))

\* (mutant) write without selecting the channel
write_unselected(st, index, attribute, v) == parent_write(st, attribute, v)

write(st, index, attribute, v) == parent_write(select(st, index), attribute, v)

\* (mutant) read without selecting the channel
read_unselected(st, index, attribute) == parent_read(st, attribute)

read(st, index, attribute) == parent_read(select(st, index), attribute)

-----------------------------------------------------------------------------
(* Range and mode descriptors                                              *)

frequency_range == [start |-> PyFloat(6, 53, 0), stop |-> PyFloat(6, 13999, 99999900)]
power_range == [start |-> PyFloat(0, -60, 0), stop |-> PyFloat(0, 20, 0)]
vga_dac_range == [start |-> PyInt(0), stop |-> PyInt(45000)]
phase_range == [start |-> PyFloat(0, 0, 0), stop |-> PyFloat(0, 360, 0)]
reference_frequency_range == [start |-> PyFloat(6, 10, 0), stop |-> PyFloat(6, 100, 0)]

temp_compensation_modes == <<"none", "on set", "1 sec", "10 sec">>
reference_modes == <<"external", "internal 27mhz", "internal 10mhz">>
trigger_modes ==
    <<"disabled", "full frequency sweep", "single frequency step", "stop all",
      "rf enable", "remove interrupts", "reserved", "reserved", "am modulation",
      "fm modulation">>

\* value in modes
InTuple(modes, v) == v.t = "str" /\ \E i \in 1..Len(modes) : modes[i] = v.s

\* (mutant) the last position holding value
TupleIndexLast(modes, v) ==
    (CHOOSE i \in 1..Len(modes) :
        modes[i] = v.s /\ \A j \in (i + 1)..Len(modes) : modes[j] # v.s) - 1

\* modes.index(value): the first position holding value, counted from 0
TupleIndex(modes, v) ==
    (CHOOSE i \in 1..Len(modes) :
        modes[i] = v.s /\ \A j \in 1..(i - 1) : modes[j] # v.s) - 1

\* modes[i]: a negative i counts from the end; outside -len..len-1 is IndexError
TupleItem(st, modes, i) ==
    IF 0 <= i /\ i < Len(modes) THEN R(st.dev, st.sent, "ok", PyStr(modes[i + 1]))
    ELSE IF -Len(modes) <= i /\ i < 0
         THEN R(st.dev, st.sent, "ok", PyStr(modes[Len(modes) + i + 1]))
         ELSE Raise(st, "IndexError")

-----------------------------------------------------------------------------
(* SynthHDChannel properties                                               *)

frequency_get(st, c) ==
    LET r == read(st, c, "frequency") IN [r EXCEPT !.val = MulMega(r.val)]

\* (mutant) the channel is selected before the value is validated
frequency_set_select_first(st, c, value) ==
    IF ~IsNumber(value)
       \/ ~(NumLeq(frequency_range.start, value) /\ NumLeq(value, frequency_range.stop))
    THEN Raise(select(st, c), "ValueError")
    ELSE write(st, c, "frequency", DivMega(value))

frequency_set(st, c, value) ==
    IF ~IsNumber(value)
       \/ ~(NumLeq(frequency_range.start, value) /\ NumLeq(value, frequency_range.stop))
    THEN Raise(st, "ValueError")
    ELSE write(st, c, "frequency", DivMega(value))

power_get(st, c) == read(st, c, "power")

power_set(st, c, value) ==
    IF ~IsNumber(value) THEN Raise(st, "TypeError")
    ELSE write(st, c, "power", value)

temp_compensation_mode_get(st, c) ==
    LET r == read(st, c, "temp_comp_mode")
    IN  IF r.status # "ok" THEN r ELSE TupleItem(r, temp_compensation_modes, r.val.n)

temp_compensation_mode_set(st, c, value) ==
    IF ~InTuple(temp_compensation_modes, value) THEN Raise(st, "ValueError")
    ELSE write(st, c, "temp_comp_mode", PyInt(TupleIndex(temp_compensation_modes, value)))

vga_dac_get(st, c) == read(st, c, "vga_dac")

vga_dac_set(st, c, value) ==
    IF ~IsInt(value) THEN Raise(st, "TypeError")
    ELSE write(st, c, "vga_dac", value)

phase_get(st, c) == read(st, c, "phase_step")

phase_set(st, c, value) ==
    IF ~IsNumber(value) THEN Raise(st, "TypeError")
    ELSE write(st, c, "phase_step", value)

\* (mutant) the register is returned as it is read
rf_mute_get_plain(st, c) == read(st, c, "rf_mute")

rf_mute_get(st, c) ==
    LET r == read(st, c, "rf_mute") IN [r EXCEPT !.val = PyBool(~Truth(r.val))]

\* (mutant) the value is written as it is given
rf_mute_set_plain(st, c, value) ==
    IF ~IsBool(value) THEN Raise(st, "ValueError")
    ELSE write(st, c, "rf_mute", value)

rf_mute_set(st, c, value) ==
    IF ~IsBool(value) THEN Raise(st, "ValueError")
    ELSE write(st, c, "rf_mute", PyBool(~Truth(value)))

pa_enable_get(st, c) == read(st, c, "pa_power_on")

pa_enable_set(st, c, value) ==
    IF ~IsBool(value) THEN Raise(st, "ValueError")
    ELSE write(st, c, "pa_power_on", value)

pll_enable_get(st, c) == read(st, c, "pll_power_on")

pll_enable_set(st, c, value) ==
    IF ~IsBool(value) THEN Raise(st, "ValueError")
    ELSE write(st, c, "pll_power_on", value)

\* not self.rf_mute and self.pll_enable and self.pa_enable, left to right
enable_get(st, c) ==
    LET r1 == rf_mute_get(st, c)
        r2 == pll_enable_get(r1, c)
        r3 == pa_enable_get(r2, c)
    IN  IF Truth(r1.val) THEN [r1 EXCEPT !.val = PyBool(FALSE)]
        ELSE IF ~Truth(r2.val) THEN r2
        ELSE r3

\* (mutant) the power amplifier is switched first
enable_set_pa_first(st, c, value) ==
    IF ~IsBool(value) THEN Raise(st, "TypeError")
    ELSE LET s1 == pa_enable_set(st, c, value)
             s2 == rf_mute_set(s1, c, PyBool(~Truth(value)))
         IN  pll_enable_set(s2, c, value)

enable_set(st, c, value) ==
    IF ~IsBool(value) THEN Raise(st, "TypeError")
    ELSE LET s1 == rf_mute_set(st, c, PyBool(~Truth(value)))
             s2 == pll_enable_set(s1, c, value)
         IN  pa_enable_set(s2, c, value)

-----------------------------------------------------------------------------
(* SynthHD properties                                                      *)

reference_mode_get(st) ==
    LET r == parent_read(st, "reference_mode")
    IN  IF r.status # "ok" THEN r ELSE TupleItem(r, reference_modes, r.val.n)

reference_mode_set(st, value) ==
    IF ~InTuple(reference_modes, value) THEN Raise(st, "ValueError")
    ELSE parent_write(st, "reference_mode", PyInt(TupleIndex(reference_modes, value)))

trigger_mode_get(st) ==
    LET r == parent_read(st, "trig_function")
    IN  IF r.status # "ok" THEN r ELSE TupleItem(r, trigger_modes, r.val.n)

trigger_mode_set(st, value) ==
    IF ~InTuple(trigger_modes, value) THEN Raise(st, "ValueError")
    ELSE parent_write(st, "trig_function", PyInt(TupleIndex(trigger_modes, value)))

reference_frequency_get(st) ==
    LET r == parent_read(st, "ref_frequency") IN [r EXCEPT !.val = MulMega(r.val)]

reference_frequency_set(st, value) ==
    IF ~IsNumber(value)
       \/ ~(NumLeq(reference_frequency_range.start, value)
            /\ NumLeq(value, reference_frequency_range.stop))
    THEN Raise(st, "ValueError")
    ELSE parent_write(st, "ref_frequency", DivMega(value))

\* sweep_enable, am_enable, pulse_mod_enable, dual_pulse_mod_enable, fm_enable
FlagAttribute(prop) ==
    CASE prop = "sweep_enable"          -> "sweep_cont"
      [] prop = "am_enable"             -> "am_cont"
      [] prop = "pulse_mod_enable"      -> "pulse_cont"
      [] prop = "dual_pulse_mod_enable" -> "dual_pulse_mod"
      [] prop = "fm_enable"             -> "fm_cont"

flag_get(st, prop) == parent_read(st, FlagAttribute(prop))

flag_set(st, prop, value) ==
    IF ~IsBool(value) THEN Raise(st, "ValueError")
    ELSE parent_write(st, FlagAttribute(prop), value)

-----------------------------------------------------------------------------
(* Property access, by object (channel 0, channel 1, the device) and name  *)

NumericProps == {"frequency", "power", "vga_dac", "phase"}
BoolProps == {"rf_mute", "pa_enable", "pll_enable", "enable"}
ChannelProps == NumericProps \cup BoolProps \cup {"temp_compensation_mode"}
FlagProps ==
    {"sweep_enable", "am_enable", "pulse_mod_enable", "dual_pulse_mod_enable",
     "fm_enable"}
DeviceProps == {"reference_mode", "trigger_mode", "reference_frequency"} \cup FlagProps
EnumProps == {"temp_compensation_mode", "reference_mode", "trigger_mode"}

Props(obj) == IF obj \in Channels THEN ChannelProps ELSE DeviceProps

Getter(st, obj, prop) ==
    CASE prop = "frequency"              -> frequency_get(st, obj)
      [] prop = "power"                  -> power_get(st, obj)
      [] prop = "temp_compensation_mode" -> temp_compensation_mode_get(st, obj)
      [] prop = "vga_dac"                -> vga_dac_get(st, obj)
      [] prop = "phase"                  -> phase_get(st, obj)
      [] prop = "rf_mute"                -> rf_mute_get(st, obj)
      [] prop = "pa_enable"              -> pa_enable_get(st, obj)
      [] prop = "pll_enable"             -> pll_enable_get(st, obj)
      [] prop = "enable"                 -> enable_get(st, obj)
      [] prop = "reference_mode"         -> reference_mode_get(st)
      [] prop = "trigger_mode"           -> trigger_mode_get(st)
      [] prop = "reference_frequency"    -> reference_frequency_get(st)
      [] prop \in FlagProps              -> flag_get(st, prop)

Setter(st, obj, prop, value) ==
    CASE prop = "frequency"              -> frequency_set(st, obj, value)
      [] prop = "power"                  -> power_set(st, obj, value)
      [] prop = "temp_compensation_mode" -> temp_compensation_mode_set(st, obj, value)
      [] prop = "vga_dac"                -> vga_dac_set(st, obj, value)
      [] prop = "phase"                  -> phase_set(st, obj, value)
      [] prop = "rf_mute"                -> rf_mute_set(st, obj, value)
      [] prop = "pa_enable"              -> pa_enable_set(st, obj, value)
      [] prop = "pll_enable"             -> pll_enable_set(st, obj, value)
      [] prop = "enable"                 -> enable_set(st, obj, value)
      [] prop = "reference_mode"         -> reference_mode_set(st, value)
      [] prop = "trigger_mode"           -> trigger_mode_set(st, value)
      [] prop = "reference_frequency"    -> reference_frequency_set(st, value)
      [] prop \in FlagProps              -> flag_set(st, prop, value)

ModesOf(prop) ==
    CASE prop = "temp_compensation_mode" -> temp_compensation_modes
      [] prop = "reference_mode"         -> reference_modes
      [] prop = "trigger_mode"           -> trigger_modes

RangeOf(prop) ==
    CASE prop = "frequency"           -> frequency_range
      [] prop = "power"               -> power_range
      [] prop = "vga_dac"             -> vga_dac_range
      [] prop = "phase"               -> phase_range
      [] prop = "reference_frequency" -> reference_frequency_range

AttributeOf(prop) ==
    CASE prop = "frequency"              -> "frequency"
      [] prop = "power"                  -> "power"
      [] prop = "temp_compensation_mode" -> "temp_comp_mode"
      [] prop = "vga_dac"                -> "vga_dac"
      [] prop = "phase"                  -> "phase_step"
      [] prop = "rf_mute"                -> "rf_mute"
      [] prop = "pa_enable"              -> "pa_power_on"
      [] prop = "pll_enable"             -> "pll_power_on"
      [] prop = "reference_mode"         -> "reference_mode"
      [] prop = "trigger_mode"           -> "trig_function"
      [] prop = "reference_frequency"    -> "ref_frequency"
      [] prop \in FlagProps              -> FlagAttribute(prop)

-----------------------------------------------------------------------------
(* Values the callers pass                                                 *)

Hz(n, m) == PyFloat(6, n, m)                 \* (n + m / 10^8) * 10^6 Hz
HzInt(n) == Val("int", 6, n, 0, "")          \* an int number of Hz, n * 10^6
NotNumbers == {PyStr("12")}
NotBools == {PyInt(1)}
ModeNames(modes) == {PyStr(modes[i]) : i \in 1..Len(modes)}
NotModes == {PyStr("bogus"), PyInt(1)}

\* a sample of accepted, boundary, off-grid and invalid values per property
Inputs(prop) ==
    CASE prop = "frequency" ->
            {Hz(53, 0), Hz(52, 99999999), Hz(13999, 99999900), Hz(13999, 99999901),
             Hz(1000, 17), Hz(1000, 99999996), PyBool(TRUE)} \cup NotNumbers
      [] prop = "power" ->
            {PyFloat(0, -11, 99960000), PyInt(100)} \cup NotNumbers
      [] prop = "phase" ->
            {PyFloat(0, 90, 55560000), PyFloat(0, -1, 0)} \cup NotNumbers
      [] prop = "vga_dac" ->
            {PyInt(45000), PyInt(45001), PyFloat(0, 1, 50000000)} \cup NotNumbers
      [] prop = "reference_frequency" ->
            {Hz(10, 0), Hz(27, 45000), HzInt(100), Hz(9, 99999999), Hz(100, 1)}
            \cup NotNumbers
      [] prop = "temp_compensation_mode" -> {PyStr("on set"), PyStr("10 sec")} \cup NotModes
      [] prop = "reference_mode" -> {PyStr("internal 27mhz"), PyStr("internal 10mhz")} \cup NotModes
      [] prop = "trigger_mode" ->
            {PyStr("rf enable"), PyStr("reserved"), PyStr("fm modulation")} \cup NotModes
      [] prop \in BoolProps \cup FlagProps -> {PyBool(TRUE), PyBool(FALSE)} \cup NotBools

-----------------------------------------------------------------------------
(* State                                                                   *)

Zero == Txt(0, 0, 0)
DefaultDevice ==
    [sel |-> 0,
     mem |-> [c \in Channels |-> [k \in ChannelCodes |-> Zero]],
     glob |-> [k \in GlobalCodes |-> Zero]]

Call(obj, prop, kind, arg) == [obj |-> obj, prop |-> prop, kind |-> kind, arg |-> arg]
NoCall == Call(DEVICE, "", "none", PyNone)
Outcome(r) == [status |-> r.status, val |-> r.val]
Fresh == [dev |-> dev, sent |-> <<>>]       \* a call starts on the current device

StepVarsIdle ==
    /\ pc = [t \in Channels |-> <<>>]
    /\ lock = [on |-> FALSE, holder |-> -1]
    /\ applied = {}
    /\ pre = DefaultDevice

\* the effect of one whole property access whose result is r
Do(r, c) ==
    /\ dev' = r.dev
    /\ sent' = r.sent
    /\ call' = c
    /\ out' = Outcome(r)
    /\ UNCHANGED <<pc, lock, applied, pre>>

\* bookkeeping: the set an object accepted last
Track(r, c) ==
    lastset' = IF c.kind = "set" /\ r.status = "ok"
               THEN [lastset EXCEPT ![c.obj] = c] ELSE lastset

Access(r, c) == Do(r, c) /\ Track(r, c)

MaxCalls == 2

Init ==
    /\ dev = DefaultDevice
    /\ sent = <<>>
    /\ call = NoCall
    /\ out = [status |-> "ok", val |-> PyNone]
    /\ ncalls = 0
    /\ lastset = [obj \in Channels \cup {DEVICE} |-> NoCall]
    /\ StepVarsIdle

Get ==
    \E obj \in Channels \cup {DEVICE} : \E prop \in Props(obj) :
        /\ ncalls < MaxCalls
        /\ ncalls' = ncalls + 1
        /\ Access(Getter(Fresh, obj, prop), Call(obj, prop, "get", PyNone))

Set ==
    \E obj \in Channels \cup {DEVICE} : \E prop \in Props(obj) :
        \E value \in Inputs(prop) :
            /\ ncalls < MaxCalls
            /\ ncalls' = ncalls + 1
            /\ Access(Setter(Fresh, obj, prop, value), Call(obj, prop, "set", value))

Next == Get \/ Set

Spec == Init /\ [][Next]_vars

-----------------------------------------------------------------------------
(* The output-enable properties on a device found in any state of its      *)
(* three booleans                                                          *)

Bit == {Txt(0, 0, 0), Txt(0, 1, 0)}

BoolDevices ==
    {[DefaultDevice EXCEPT !.sel = s,
                           !.mem[0]["h"] = b[1], !.mem[0]["E"] = b[2], !.mem[0]["r"] = b[3],
                           !.mem[1]["h"] = b[4], !.mem[1]["E"] = b[5], !.mem[1]["r"] = b[6]] :
        s \in Channels, b \in [1..6 -> Bit]}

InitBool ==
    /\ dev \in BoolDevices
    /\ sent = <<>>
    /\ call = NoCall
    /\ out = [status |-> "ok", val |-> PyNone]
    /\ ncalls = 0
    /\ lastset = [obj \in Channels \cup {DEVICE} |-> NoCall]
    /\ StepVarsIdle

BoolGet ==
    \E c \in Channels : \E prop \in BoolProps :
        /\ Do(Getter(Fresh, c, prop), Call(c, prop, "get", PyNone))
        /\ UNCHANGED <<ncalls, lastset>>

BoolSet ==
    \E c \in Channels : \E prop \in BoolProps :
        \E value \in {PyBool(TRUE), PyBool(FALSE)} \cup NotBools :
            /\ Do(Setter(Fresh, c, prop, value), Call(c, prop, "set", value))
            /\ UNCHANGED <<ncalls, lastset>>

NextBool == BoolGet \/ BoolSet

SpecBool == InitBool /\ [][NextBool]_vars

-----------------------------------------------------------------------------
(* The mode properties on a device whose mode register may hold any index  *)

MaxBad == 2     \* how far outside -len..len-1 a stored index may lie

ObjectsOf(prop) == IF prop \in ChannelProps THEN Channels ELSE {DEVICE}

Indices(prop) ==
    (-(Len(ModesOf(prop)) + MaxBad))..(Len(ModesOf(prop)) - 1 + MaxBad)

\* device d with the register of property prop of object obj holding index i
WithIndex(d, obj, prop, i) ==
    LET code == API(AttributeOf(prop)).code
    IN  IF obj \in Channels THEN [d EXCEPT !.mem[obj][code] = Txt(0, i, 0)]
        ELSE [d EXCEPT !.glob[code] = Txt(0, i, 0)]

\* Each behaviour exercises one mode property of one object, found with any
\* index in its register; until the first access, call names that property.
InitEnum ==
    \E prop \in EnumProps : \E obj \in ObjectsOf(prop) : \E i \in Indices(prop) :
        /\ dev = WithIndex(DefaultDevice, obj, prop, i)
        /\ sent = <<>>
        /\ call = Call(obj, prop, "none", PyNone)
        /\ out = [status |-> "ok", val |-> PyNone]
        /\ ncalls = 0
        /\ lastset = [o \in Channels \cup {DEVICE} |-> NoCall]
        /\ StepVarsIdle

EnumGet ==
    /\ Do(Getter(Fresh, call.obj, call.prop), Call(call.obj, call.prop, "get", PyNone))
    /\ UNCHANGED <<ncalls, lastset>>

EnumSet ==
    \E value \in ModeNames(ModesOf(call.prop)) \cup NotModes :
        /\ Do(Setter(Fresh, call.obj, call.prop, value),
              Call(call.obj, call.prop, "set", value))
        /\ UNCHANGED <<ncalls, lastset>>

NextEnum == EnumGet \/ EnumSet

SpecEnum == InitEnum /\ [][NextEnum]_vars

-----------------------------------------------------------------------------
(* Line by line: a call is the sequence of lines it sends, one per step    *)

Scratch == [dev |-> DefaultDevice, sent |-> <<>>]

\* the lines a call on channel view c sends (for a set, and for a get of a
\* single attribute, they do not depend on the device)
Program(c, prop, kind, value) ==
    IF kind = "set" THEN Setter(Scratch, c, prop, value).sent
    ELSE Getter(Scratch, c, prop).sent

\* the device receives one line
Transmit(d, line) == IF line.q THEN d ELSE DeviceWrite(d, line)

-----------------------------------------------------------------------------
(* Two callers, caller t on channel view t, sharing the one session; with  *)
(* or without a mutex the callers hold around each property access         *)

RaceCalls ==
    {<<"pa_enable", "set", PyBool(TRUE)>>, <<"frequency", "set", Hz(53, 0)>>,
     <<"power", "get", PyNone>>}

InitRace ==
    /\ dev = DefaultDevice
    /\ sent = <<>>
    /\ call = NoCall
    /\ out = [status |-> "ok", val |-> PyNone]
    /\ ncalls = 0
    /\ lastset = [o \in Channels \cup {DEVICE} |-> NoCall]
    /\ pc = [t \in Channels |-> <<>>]
    /\ lock \in {[on |-> b, holder |-> -1] : b \in BOOLEAN}
    /\ applied = {}
    /\ pre = DefaultDevice

RaceBegin ==
    \E t \in Channels : \E c \in RaceCalls :
        /\ pc[t] = <<>>
        /\ lock.on => lock.holder = -1
        /\ pc' = [pc EXCEPT ![t] = Program(t, c[1], c[2], c[3])]
        /\ lock' = IF lock.on THEN [lock EXCEPT !.holder = t] ELSE lock
        /\ UNCHANGED <<dev, sent, call, out, ncalls, lastset, applied, pre>>

RaceStep ==
    \E t \in Channels :
        /\ pc[t] # <<>>
        /\ lock.on => lock.holder = t
        /\ dev' = Transmit(dev, Head(pc[t]))
        /\ applied' = IF Head(pc[t]).code = "C" THEN applied
                      ELSE applied \cup {[view |-> t, chan |-> dev.sel]}
        /\ pc' = [pc EXCEPT ![t] = Tail(pc[t])]
        /\ lock' = IF lock.on /\ Tail(pc[t]) = <<>>
                   THEN [lock EXCEPT !.holder = -1] ELSE lock
        /\ UNCHANGED <<sent, call, out, ncalls, lastset, pre>>

NextRace == RaceBegin \/ RaceStep

SpecRace == InitRace /\ [][NextRace]_vars

-----------------------------------------------------------------------------
(* The enable setter line by line, on a transport that may fail            *)

InitEnable ==
    /\ dev \in BoolDevices
    /\ sent = <<>>
    /\ call = NoCall
    /\ out = [status |-> "ok", val |-> PyNone]
    /\ ncalls = 0
    /\ lastset = [o \in Channels \cup {DEVICE} |-> NoCall]
    /\ pc = [t \in Channels |-> <<>>]
    /\ lock = [on |-> FALSE, holder |-> -1]
    /\ applied = {}
    /\ pre = dev

EnableBegin ==
    \E c \in Channels : \E b \in BOOLEAN :
        /\ \A t \in Channels : pc[t] = <<>>
        /\ pc' = [pc EXCEPT ![c] = Program(c, "enable", "set", PyBool(b))]
        /\ call' = Call(c, "enable", "set", PyBool(b))
        /\ out' = [status |-> "running", val |-> PyNone]
        /\ sent' = <<>>
        /\ pre' = dev
        /\ UNCHANGED <<dev, ncalls, lastset, lock, applied>>

\* the next line goes out
EnableStep ==
    \E c \in Channels :
        /\ pc[c] # <<>>
        /\ dev' = Transmit(dev, Head(pc[c]))
        /\ sent' = Append(sent, Head(pc[c]))
        /\ pc' = [pc EXCEPT ![c] = Tail(pc[c])]
        /\ out' = IF Tail(pc[c]) = <<>> THEN [out EXCEPT !.status = "ok"] ELSE out
        /\ UNCHANGED <<call, ncalls, lastset, lock, applied, pre>>

\* the transport raises on the next line: the exception leaves the setter
EnableFail ==
    \E c \in Channels :
        /\ pc[c] # <<>>
        /\ pc' = [pc EXCEPT ![c] = <<>>]
        /\ out' = [out EXCEPT !.status = "IOError"]
        /\ UNCHANGED <<dev, sent, call, ncalls, lastset, lock, applied, pre>>

NextEnable == EnableBegin \/ EnableStep \/ EnableFail

SpecEnable == InitEnable /\ [][NextEnable]_vars

-----------------------------------------------------------------------------
(* Helpers of the properties                                               *)

SelectLine(c) == Line("C", FALSE, Txt(0, c, 0))
IsAttrLine(l) == l.code # "C"
AttrLines(lines) == SelectSeq(lines, IsAttrLine)
WriteLine(code, n) == Line(code, FALSE, Txt(0, n, 0))
Rejected == out.status \in {"ValueError", "TypeError"}
Here == [dev |-> dev, sent |-> <<>>]

\* v lies in [range.start, range.stop]
InRange(range, v) == NumLeq(range.start, v) /\ NumLeq(v, range.stop)

\* C1: on a channel view, every attribute line of a call is immediately
\* preceded by the select line C{i} of that view's own channel, and every
\* call that was not rejected did send its attribute line.
C1_SelectImmediatelyBefore ==
    (call.kind # "none" /\ call.obj \in Channels) =>
        /\ \A j \in 1..Len(sent) :
              IsAttrLine(sent[j]) => (j > 1 /\ sent[j - 1] = SelectLine(call.obj))
        /\ \A j \in 1..Len(sent) :
              ~IsAttrLine(sent[j]) => (j < Len(sent) /\ IsAttrLine(sent[j + 1]))
        /\ (~Rejected => Len(sent) >= 2)

C1_Witness ==
    /\ call = Call(1, "frequency", "set", Hz(1000, 17))
    /\ sent = <<SelectLine(1), Line("f", FALSE, Txt(7, 1000, 20))>>
    /\ dev.sel = 1

\* the inputs the setters are documented to reject
ListedBad(c) ==
    \/ c.prop \in {"frequency", "reference_frequency"}
         /\ (~IsNumber(c.arg) \/ ~InRange(RangeOf(c.prop), c.arg))
    \/ c.prop \in EnumProps /\ ~InTuple(ModesOf(c.prop), c.arg)
    \/ c.prop \in BoolProps \cup FlagProps /\ ~IsBool(c.arg)

\* C4: a setter that rejects its input has sent nothing on the transport,
\* and every input listed as invalid is rejected.
C4_RejectBeforeAnyLine ==
    call.kind = "set" =>
        /\ (ListedBad(call) => Rejected)
        /\ (Rejected => sent = <<>>)

C4_Witness ==
    /\ call = Call(0, "enable", "set", PyInt(1))
    /\ out.status = "TypeError"
    /\ sent = <<>>

\* C5 (as claimed): every range-bounded numeric setter rejects every number
\* outside its range descriptor.
C5_OutOfRangeRejected ==
    (/\ call.kind = "set"
     /\ call.prop \in NumericProps \cup {"reference_frequency"}
     /\ IsNumber(call.arg)
     /\ ~InRange(RangeOf(call.prop), call.arg)) => (Rejected /\ sent = <<>>)

\* half the step of the write template of a numeric property, in units of 10^-8
HalfStep(prop) == Pow10(8 - API(AttributeOf(prop)).fmt) \div 2

\* |a - b| <= tol (units of 10^-8), for numbers of the same exponent
Close(a, b, tol) ==
    /\ a.e = b.e
    /\ \/ a.n = b.n /\ a.m - b.m <= tol /\ b.m - a.m <= tol
       \/ a.n = b.n + 1 /\ a.m + (Scale - b.m) <= tol
       \/ b.n = a.n + 1 /\ b.m + (Scale - a.m) <= tol

\* the getter's value got answers the accepted value v of property prop
RoundTripOK(prop, v, got) ==
    CASE prop \in {"frequency", "power", "phase", "reference_frequency"} ->
            /\ Close(got, v, HalfStep(prop))
            /\ got.m % (2 * HalfStep(prop)) = 0
            /\ (v.m % (2 * HalfStep(prop)) = 0 => got.n = v.n /\ got.m = v.m)
      [] prop = "vga_dac" -> got.t = "int" /\ got.n = v.n
      [] prop \in EnumProps -> got.t = "str" /\ got.s = v.s
      [] prop \in BoolProps \cup FlagProps -> got.t = "bool" /\ got.n = v.n

\* C8: the getter of the property an object last accepted a set for returns
\* the accepted value (within half a step of the write format, exactly when
\* the value is on the step grid), whatever was done since through the other
\* channel or the device.
C8_RoundTrip ==
    \A obj \in Channels \cup {DEVICE} :
        lastset[obj].kind = "set" =>
            LET g == Getter(Here, obj, lastset[obj].prop)
            IN  g.status = "ok" /\ RoundTripOK(lastset[obj].prop, lastset[obj].arg, g.val)

C8_Witness ==
    /\ call = Call(1, "frequency", "set", Hz(53, 0))
    /\ out.status = "ok"
    /\ lastset[0] = Call(0, "frequency", "set", Hz(1000, 17))
    /\ lastset[1] = call
    /\ dev.sel = 1
    /\ frequency_get(Here, 0).val = Hz(1000, 20)
    /\ frequency_get(Here, 1).val = Hz(53, 0)

-----------------------------------------------------------------------------
(* Output enable (SpecBool)                                                *)

EnableTrueDone ==
    call.kind = "set" /\ call.prop = "enable" /\ call.arg = PyBool(TRUE)

\* C2 (as claimed): enable = True writes h0, then E1, then r1.
C2_EnableWritesH0 ==
    EnableTrueDone =>
        AttrLines(sent) = <<WriteLine("h", 0), WriteLine("E", 1), WriteLine("r", 1)>>

\* C2 (amended): enable = True issues exactly three attribute writes, in
\* the order rf_mute, pll_power_on, pa_power_on, as the lines h1, E1, r1: the
\* rf_mute property is set to False and the register takes its inverse.
C2_EnableWritesH1 ==
    EnableTrueDone =>
        /\ AttrLines(sent) = <<WriteLine("h", 1), WriteLine("E", 1), WriteLine("r", 1)>>
        /\ Len(sent) = 6

C2_Witness ==
    /\ call = Call(1, "enable", "set", PyBool(TRUE))
    /\ out.status = "ok"
    /\ Len(sent) = 6

RegBit(c, code) == dev.mem[c][code] = Txt(0, 1, 0)
EnableGot == call.kind = "get" /\ call.prop = "enable" /\ out.status = "ok"

\* C3 (as claimed): enable reads True iff h? reads false, E? true and r? true.
C3_EnableIffMuteRegisterFalse ==
    EnableGot =>
        (Truth(out.val) <=>
            (~RegBit(call.obj, "h") /\ RegBit(call.obj, "E") /\ RegBit(call.obj, "r")))

\* C3 (amended): enable reads True iff the rf_mute property reads False,
\* which is when h? replies 1, and E? and r? reply 1.
C3_EnableIffAllRegistersTrue ==
    EnableGot =>
        /\ Truth(out.val) <=>
              (RegBit(call.obj, "h") /\ RegBit(call.obj, "E") /\ RegBit(call.obj, "r"))
        /\ Truth(out.val) <=>
              (/\ ~Truth(rf_mute_get(Here, call.obj).val)
               /\ Truth(pll_enable_get(Here, call.obj).val)
               /\ Truth(pa_enable_get(Here, call.obj).val))

C3_Witness ==
    /\ call = Call(0, "enable", "get", PyNone)
    /\ out.val = PyBool(TRUE)
    /\ Len(sent) = 6

-----------------------------------------------------------------------------
(* Modes (SpecEnum)                                                        *)

EnumSetDone == call.kind = "set" /\ call.prop \in EnumProps
Positions(modes, v) == {i \in 0..(Len(modes) - 1) : v.t = "str" /\ modes[i + 1] = v.s}
Written(n) == AttrLines(sent) = <<WriteLine(API(AttributeOf(call.prop)).code, n)>>

\* C6 (as claimed): setting the name at position i writes index i, for every
\* position i; a value not in the sequence is rejected.
C6_WritesEveryPosition ==
    EnumSetDone =>
        /\ \A i \in Positions(ModesOf(call.prop), call.arg) : Written(i)
        /\ (Positions(ModesOf(call.prop), call.arg) = {} => out.status = "ValueError")

Min(S) == CHOOSE x \in S : \A y \in S : x <= y

\* C6 (amended): setting a name of the sequence writes the first position
\* that holds it (position i for every name but 'reserved', which stands at
\* 6 and 7 of trigger_modes and is written as 6); a value not in the
\* sequence is rejected with nothing written.
C6_WritesFirstPosition ==
    EnumSetDone =>
        LET pos == Positions(ModesOf(call.prop), call.arg)
        IN  /\ (pos # {} => out.status = "ok" /\ Written(Min(pos)))
            /\ (pos = {} => out.status = "ValueError" /\ sent = <<>>)

C6_Witness ==
    /\ call = Call(DEVICE, "trigger_mode", "set", PyStr("reserved"))
    /\ sent = <<WriteLine("w", 6)>>

\* C7 (as claimed): a mode getter fails whenever the device's index lies
\* outside 0..len-1, negative indices included.
C7_BadIndexFails ==
    (call.kind = "get" /\ call.prop \in EnumProps) =>
        LET i == DeviceReply(dev, API(AttributeOf(call.prop)).code).n
        IN  (i < 0 \/ i >= Len(ModesOf(call.prop))) => out.status # "ok"

-----------------------------------------------------------------------------
(* Shared channel selection (SpecRace)                                     *)

\* C9: when every property access is made under the callers' one mutex, each
\* attribute command is applied to the channel of the view that issued it.
\* (Without the mutex the witness below is reached.)
C9_MutexAppliesOwnChannel ==
    lock.on => \A a \in applied : a.chan = a.view

\* without the mutex, a command of view 0 is applied with channel 1 selected
C9_Witness ==
    /\ ~lock.on
    /\ \E a \in applied : a.view = 0 /\ a.chan = 1
    /\ \A a \in applied : a.view = 0
    /\ dev.mem[1]["f"] = Txt(7, 53, 0)

C9_MutexWitness ==
    /\ lock.on
    /\ \E a \in applied : a.view = 0
    /\ \E a \in applied : a.view = 1

-----------------------------------------------------------------------------
(* The enable setter is not atomic (SpecEnable)                            *)

EnableCodes == <<"h", "E", "r">>
Done == Len(AttrLines(sent))       \* attribute writes the setter has made

\* C10: while and after the enable setter runs, its attribute writes so far
\* are a prefix of h, E, r; exactly those registers of its channel hold the
\* new value and the others still hold what they held before the call; a
\* failure ends the call with the written ones kept and the rest not sent.
C10_PrefixAppliedNoRollback ==
    call.kind = "set" =>
        /\ Done <= 3
        /\ \A k \in 1..3 :
              IF k <= Done
              THEN /\ AttrLines(sent)[k] = WriteLine(EnableCodes[k], call.arg.n)
                   /\ dev.mem[call.obj][EnableCodes[k]] = Txt(0, call.arg.n, 0)
              ELSE dev.mem[call.obj][EnableCodes[k]] = pre.mem[call.obj][EnableCodes[k]]
        /\ dev.mem[1 - call.obj] = pre.mem[1 - call.obj]
        /\ (out.status = "IOError" => Done < 3 /\ \A t \in Channels : pc[t] = <<>>)
        /\ (out.status = "ok" => Done = 3)
        /\ (out.status = "running" => Len(pc[call.obj]) + Len(sent) = 6)

\* the third write failed: h and E are on, r is still off, nothing follows
C10_Witness ==
    /\ call = Call(0, "enable", "set", PyBool(TRUE))
    /\ out.status = "IOError"
    /\ pc[0] = <<>>
    /\ pre.mem[0] = DefaultDevice.mem[0]
    /\ dev.mem[0]["h"] = Txt(0, 1, 0)
    /\ dev.mem[0]["E"] = Txt(0, 1, 0)
    /\ dev.mem[0]["r"] = Txt(0, 0, 0)
====
